---- MODULE Spec2Model ----
(***************************************************************************)
(* A model of aggrefiles (src/aggrefiles/__main__.py): aggregate_files and *)
(* the command line entry point main.                                      *)
(*                                                                         *)
(* Text (file names, file contents, extensions, the output) is a sequence  *)
(* of Unicode codepoints, so that str.lower, Path.suffix, str.endswith,    *)
(* the ordering of strings and the 80-dash separator are computed and not  *)
(* assumed.  A path is the sequence of its components (each a text); the   *)
(* filesystem maps the paths that exist to their entries.                  *)
(*                                                                         *)
(* A file's content is the text read_text returns for it (already decoded),*)
(* the ignore matcher is an arbitrary predicate over relative path strings *)
(* (the set of strings it matches), as pathspec is a library outside the   *)
(* repository.                                                             *)
(***************************************************************************)
EXTENDS Integers, Sequences, FiniteSets, TLC

VARIABLES
    fs,          \* the filesystem: [path -> entry], the domain is what exists
    setups,      \* how many changes the environment made to the tree
    pc,          \* position of the command line run ("idle": none running)
    argv,        \* the arguments of the command line run
    interrupted, \* where a KeyboardInterrupt reached the command line run ("no")
    exit,        \* how the command line run ended ("none": it did not yet)
    files,       \* aggregate_files' local list `files`, while main runs it
    call,        \* the arguments of the latest aggregate_files call
    before,      \* the filesystem when the latest aggregate_files call began
    ret,         \* what the latest aggregate_files call returned (-1: nothing)
    written,     \* the paths the latest call wrote a block for, in order
    runs         \* number of aggregate_files calls made

vars == <<fs, setups, pc, argv, interrupted, exit, files, call, before, ret,
          written, runs>>

-----------------------------------------------------------------------------
(* Bounds of the model. *)

\* changes the environment may make to the tree before the program runs
MaxSetup == 3

-----------------------------------------------------------------------------
(* Characters and text. *)

NL == 10
DASH == 45
DOT == 46
SLASH == 47
SepLen == 80

\* "-" * 80
separator == [i \in 1..SepLen |-> DASH]

\* str.lower on the characters the model uses (ASCII)
LowerChar(c) == IF c >= 65 /\ c <= 90 THEN c + 32 ELSE c

Lower(s) == [i \in 1..Len(s) |-> LowerChar(s[i])]

\* str.startswith(".") / str.endswith("\n")
StartsWithDot(s) == Len(s) > 0 /\ s[1] = DOT

EndsWithNL(s) == Len(s) > 0 /\ s[Len(s)] = NL

\* str.rfind("."): the last position of a dot, 0 when there is none (1-based)
RFindDot(s) ==
    LET I == {i \in 1..Len(s) : s[i] = DOT}
    IN IF I = {} THEN 0 ELSE CHOOSE i \in I : \A j \in I : j <= i

\* PurePath.suffix of a final component: from the last dot on, unless that
\* dot is the first or the last character of the name
Suffix(name) ==
    LET i == RFindDot(name)
    IN IF 1 < i /\ i < Len(name) THEN SubSeq(name, i, Len(name)) ELSE <<>>

\* s < t for str: by codepoint, a proper prefix first
RECURSIVE StrLess(_, _)
StrLess(s, t) ==
    IF t = <<>> THEN FALSE
    ELSE IF s = <<>> THEN TRUE
    ELSE IF s[1] # t[1] THEN s[1] < t[1]
    ELSE StrLess(Tail(s), Tail(t))

-----------------------------------------------------------------------------
(* Paths. *)

\* PurePath.as_posix of a relative path: its components joined by "/"
RECURSIVE AsPosix(_)
AsPosix(p) ==
    IF p = <<>> THEN <<>>
    ELSE IF Len(p) = 1 THEN p[1]
    ELSE p[1] \o <<SLASH>> \o AsPosix(Tail(p))

IsUnder(p, root) ==
    Len(p) > Len(root) /\ SubSeq(p, 1, Len(root)) = root

\* Path.relative_to(root), for a path under root
RelativeTo(p, root) == SubSeq(p, Len(root) + 1, Len(p))

Parent(p) == SubSeq(p, 1, Len(p) - 1)

Name(p) == p[Len(p)]

\* p < q for Path objects: the component sequences compared, component by
\* component, each component as a str
RECURSIVE PathLess(_, _)
PathLess(p, q) ==
    IF q = <<>> THEN FALSE
    ELSE IF p = <<>> THEN TRUE
    ELSE IF p[1] # q[1] THEN StrLess(p[1], q[1])
    ELSE PathLess(Tail(p), Tail(q))

-----------------------------------------------------------------------------
(* The filesystem. *)

NoText == <<>>
NoPath == <<>>

FileEntry(c, readable) ==
    [kind |-> "file", content |-> c, readable |-> readable, target |-> NoPath]

DirEntry ==
    [kind |-> "dir", content |-> NoText, readable |-> TRUE, target |-> NoPath]

LinkEntry(t) ==
    [kind |-> "link", content |-> NoText, readable |-> TRUE, target |-> t]

Exists(f, p) == p \in DOMAIN f

\* Path.resolve: a symbolic link is replaced by what it points to
Resolve(f, p) ==
    IF Exists(f, p) /\ f[p].kind = "link" THEN f[p].target ELSE p

\* Path.is_file: follows symbolic links
IsFile(f, p) ==
    LET q == Resolve(f, p) IN Exists(f, q) /\ f[q].kind = "file"

\* all the proper ancestors of p and p itself, from length 1 on
Ancestors(p) == {SubSeq(p, 1, n) : n \in 1..Len(p)}

\* Path.mkdir(parents=True, exist_ok=True)
MkdirParents(f, d) ==
    LET new == {a \in Ancestors(d) : ~Exists(f, a)}
    IN [p \in DOMAIN f \cup new |-> IF p \in new THEN DirEntry ELSE f[p]]

\* open(p, "w") ... write(c) ... close: p is created or truncated
WriteFile(f, p, c) ==
    [q \in DOMAIN f \cup {p} |-> IF q = p THEN FileEntry(c, TRUE) ELSE f[q]]

\* root.rglob("*"): every entry below root
Rglob(f, root) == {p \in DOMAIN f : IsUnder(p, root)}

-----------------------------------------------------------------------------
(* aggregate_files. *)

\* gitignore_spec: None, or a PathSpec given by the strings it matches
NoSpec == [given |-> FALSE, matches |-> {}]

PathSpec(M) == [given |-> TRUE, matches |-> M]

\* gitignore_spec.match_file(s)
MatchFile(spec, s) == s \in spec.matches

\* Keeps without the test of the matcher
Keeps_NoMatcher(f, root, ext, output, spec, path) ==
    /\ IsFile(f, path)
    /\ Lower(Suffix(Name(path))) = ext
    /\ Resolve(f, path) # output

\* Keeps without the test that guards the output file
Keeps_NoSelfExclusion(f, root, ext, output, spec, path) ==
    /\ ~(spec.given /\ MatchFile(spec, AsPosix(RelativeTo(path, root))))
    /\ IsFile(f, path)
    /\ Lower(Suffix(Name(path))) = ext

\* the test of one entry of the walk: not skipped by the matcher, a file
\* with the suffix wanted, and not the output file
Keeps(f, root, ext, output, spec, path) ==
    /\ ~(spec.given /\ MatchFile(spec, AsPosix(RelativeTo(path, root))))
    /\ IsFile(f, path)
    /\ Lower(Suffix(Name(path))) = ext
    /\ Resolve(f, path) # output

RECURSIVE SetToSeq(_)
SetToSeq(S) ==
    IF S = {} THEN <<>>
    ELSE LET x == CHOOSE y \in S : TRUE IN <<x>> \o SetToSeq(S \ {x})

\* a sort by the "/"-separated strings of the paths
PosixLess(p, q) == StrLess(AsPosix(p), AsPosix(q))

SortPaths_ByString(S) == SortSeq(SetToSeq(S), PosixLess)

\* files.sort(): Path objects in ascending order
SortPaths(S) == SortSeq(SetToSeq(S), PathLess)

\* the list `files` after the walk and the sort; root and output are
\* resolved and ext is lowercased on entry
Collect(f, root, ext, output, spec) ==
    LET r == Resolve(f, root)
        o == Resolve(f, output)
        e == Lower(ext)
    IN SortPaths({p \in Rglob(f, r) : Keeps(f, r, e, o, spec, p)})

\* str(exc) of the exception read_text raises on an unreadable file
ExcText == <<80, 101, 114, 109, 105, 115, 115, 105, 111, 110, 32,
             100, 101, 110, 105, 101, 100>>          \* Permission denied

\* "[Error reading file: {exc}]"
ErrorMarker(exc) ==
    <<91, 69, 114, 114, 111, 114, 32, 114, 101, 97, 100, 105, 110, 103, 32,
      102, 105, 108, 101, 58, 32>> \o exc \o <<93>>

\* a failed read that leaves the content empty
ReadContent_NoMarker(f, path) ==
    LET q == Resolve(f, path)
    IN IF Exists(f, q) /\ f[q].kind = "file" /\ f[q].readable
       THEN f[q].content
       ELSE <<>>

\* the try/except around file_path.read_text
ReadContent(f, path) ==
    LET q == Resolve(f, path)
    IN IF Exists(f, q) /\ f[q].kind = "file" /\ f[q].readable
       THEN f[q].content
       ELSE ErrorMarker(ExcText)

\* a block that is given its newline whatever the content ends with
Block_AlwaysNewline(f, root, path) ==
    LET content == ReadContent(f, path)
    IN AsPosix(RelativeTo(path, root)) \o <<NL>>
       \o content \o <<NL>>
       \o separator \o <<NL, NL>>

\* a block that is never given the newline its content lacks
Block_NoNewline(f, root, path) ==
    LET content == ReadContent(f, path)
    IN AsPosix(RelativeTo(path, root)) \o <<NL>>
       \o content
       \o separator \o <<NL, NL>>

\* what one turn of the writing loop writes
Block(f, root, path) ==
    LET content == ReadContent(f, path)
    IN AsPosix(RelativeTo(path, root)) \o <<NL>>
       \o content
       \o (IF ~EndsWithNL(content) THEN <<NL>> ELSE <<>>)
       \o separator \o <<NL, NL>>

\* what the writing loop writes for the first n files of the list
RECURSIVE Blocks(_, _, _, _)
Blocks(f, root, fl, n) ==
    IF n = 0 THEN <<>>
    ELSE Blocks(f, root, fl, n - 1) \o Block(f, root, fl[n])

\* the filesystem after mkdir and the with-block that has written the
\* blocks of the first n files of fl
WriteOutput(f, root, output, fl, n) ==
    LET r == Resolve(f, root)
        o == Resolve(f, output)
    IN WriteFile(MkdirParents(f, Parent(o)), o, Blocks(f, r, fl, n))

\* a call that opens the output file before it tests the list
AggregateFiles_OpensFirst(f, root, ext, output, spec) ==
    LET fl == Collect(f, root, ext, output, spec)
    IN [fs |-> WriteOutput(f, root, output, fl, Len(fl)),
        ret |-> Len(fl), written |-> fl]

\* a whole call: the filesystem it leaves and the count it returns
AggregateFiles(f, root, ext, output, spec) ==
    LET fl == Collect(f, root, ext, output, spec)
    IN IF fl = <<>>
       THEN [fs |-> f, ret |-> 0, written |-> <<>>]
       ELSE [fs |-> WriteOutput(f, root, output, fl, Len(fl)),
             ret |-> Len(fl), written |-> fl]

-----------------------------------------------------------------------------
(* The trees, contents and arguments the model draws from. *)

Root == << <<114>> >>                                            \* /r

a_b_txt == Root \o << <<97>>, <<98, 46, 116, 120, 116>> >>        \* a/b.txt
ab_x_txt == Root \o << <<97, 45, 98>>, <<120, 46, 116, 120, 116>> >>
                                                                  \* a-b/x.txt
c_TXT == Root \o << <<99, 46, 84, 88, 84>> >>                     \* c.TXT
dot_txt == Root \o << <<46, 116, 120, 116>> >>                    \* .txt
d_txt == Root \o << <<100, 46, 116, 120, 116>> >>                 \* d.txt
l_txt == Root \o << <<108, 46, 116, 120, 116>> >>                 \* l.txt

aggregated == <<97, 103, 103, 114, 101, 103, 97, 116, 101, 100>>   \* aggregated

aggregated_txt == Root \o <<aggregated \o <<46, 116, 120, 116>> >>
                                                            \* aggregated.txt
outside_txt == << <<111>>, <<111, 46, 116, 120, 116>> >>          \* /o/o.txt

\* the files the environment may create, the directory it may make and the
\* symbolic link it may set
FileSlots == {a_b_txt, ab_x_txt, c_TXT, dot_txt, aggregated_txt}

DirSlots == {d_txt}

LinkSlots == {l_txt}

\* "", "x", "x\n", and a line of 80 dashes inside a text
Dashes80 == [i \in 1..80 |-> 45]

Contents ==
    { <<>>, <<120>>, <<120, 10>>, <<120, 10>> \o Dashes80 \o <<10, 120, 10>> }

\* the extension filters: ".txt", ".TXT", "txt", "TXT"
Exts == { <<46, 116, 120, 116>>, <<46, 84, 88, 84>>, <<116, 120, 116>>,
          <<84, 88, 84>> }

Outputs == {aggregated_txt, outside_txt}

\* no matcher, one that matches the directory "a" alone, one that matches
\* the file "a/b.txt"
Specs == { NoSpec,
           PathSpec({ <<97>> }),
           PathSpec({ <<97, 47, 98, 46, 116, 120, 116>> }) }

NoCall == [root |-> NoPath, ext |-> NoText, output |-> NoPath, spec |-> NoSpec]

NoArgv == [ok |-> TRUE, ext |-> NoText, output |-> NoPath, gitignore |-> NoPath]

-----------------------------------------------------------------------------
(* The state machine. *)

Init ==
    /\ fs = [p \in {Root} |-> DirEntry]
    /\ setups = 0
    /\ pc = "idle"
    /\ argv = NoArgv
    /\ interrupted = "no"
    /\ exit = "none"
    /\ files = <<>>
    /\ call = NoCall
    /\ before = [p \in {Root} |-> DirEntry]
    /\ ret = -1
    /\ written = <<>>
    /\ runs = 0

program == <<pc, argv, interrupted, exit, files, call, before, ret, written,
             runs>>

\* the environment prepares the tree before the program is started
CanSetup == pc = "idle" /\ runs = 0 /\ setups < MaxSetup

CreateFile(p, c) ==
    /\ CanSetup
    /\ ~Exists(fs, p)
    /\ fs' = WriteFile(MkdirParents(fs, Parent(p)), p, c)
    /\ setups' = setups + 1
    /\ UNCHANGED program

MakeDir(p) ==
    /\ CanSetup
    /\ ~Exists(fs, p)
    /\ fs' = MkdirParents(fs, p)
    /\ setups' = setups + 1
    /\ UNCHANGED program

MakeLink(p, t) ==
    /\ CanSetup
    /\ ~Exists(fs, p)
    /\ fs' = [q \in DOMAIN fs \cup {p} |-> IF q = p THEN LinkEntry(t) ELSE fs[q]]
    /\ setups' = setups + 1
    /\ UNCHANGED program

MakeUnreadable(p) ==
    /\ CanSetup
    /\ Exists(fs, p) /\ fs[p].kind = "file" /\ fs[p].readable
    /\ fs' = [fs EXCEPT ![p].readable = FALSE]
    /\ setups' = setups + 1
    /\ UNCHANGED program

\* a call of aggregate_files(root, ext, output, gitignore_spec)
Call(root, ext, output, spec) ==
    LET r == AggregateFiles(fs, root, ext, output, spec)
    IN /\ fs' = r.fs
       /\ ret' = r.ret
       /\ written' = r.written
       /\ call' = [root |-> root, ext |-> ext, output |-> output, spec |-> spec]
       /\ before' = fs
       /\ runs' = runs + 1

\* the library is called directly
Aggregate(ext, output, spec) ==
    /\ pc = "idle" /\ runs = 0
    /\ Call(Root, ext, output, spec)
    /\ UNCHANGED <<setups, pc, argv, interrupted, exit, files>>

\* and called once more with the same arguments, the tree left as it is
AggregateAgain ==
    /\ pc = "idle" /\ runs = 1
    /\ Call(call.root, call.ext, call.output, call.spec)
    /\ UNCHANGED <<setups, pc, argv, interrupted, exit, files>>

-----------------------------------------------------------------------------
(* main: the command line run. *)

\* a path given on the command line: absolute or not, and its components
PathArg(abs, parts) == [given |-> TRUE, abs |-> abs, parts |-> parts]

\* an option left out (output: None) or given as the empty string
NoPathArg == [given |-> FALSE, abs |-> FALSE, parts |-> NoPath]

\* the filter passed on as it was typed
MainExt_AsTyped(ext) == ext

\* ext = args.ext; if not ext.startswith("."): ext = "." + ext
MainExt(ext) == IF ~StartsWithDot(ext) THEN <<DOT>> \o ext ELSE ext

\* out_path: args.output taken against root unless absolute, and by
\* default root / f"aggregated{ext}"
MainOutPath(root, ext, o) ==
    IF o.given
    THEN IF ~o.abs THEN root \o o.parts ELSE o.parts
    ELSE root \o <<aggregated \o ext>>

\* gitignore_path: args.gitignore taken against root unless absolute
MainGitignorePath(root, g) == IF ~g.abs THEN root \o g.parts ELSE g.parts

\* the text of the ignore file of the model: "a\n"
IgnoreLines == <<97, 10>>

\* pathspec.PathSpec.from_lines("gitwildmatch", f), as far as the model
\* needs the library: the pattern "a" matches the entry a and all below it
FromLines(text) ==
    IF text = IgnoreLines
    THEN PathSpec({ <<97>>, <<97, 47, 98, 46, 116, 120, 116>> })
    ELSE PathSpec({})

\* gitignore_spec as main loads it
MainGitignoreSpec(f, root, g) ==
    IF g.given
    THEN LET gp == MainGitignorePath(root, g)
         IN IF IsFile(f, gp) THEN FromLines(f[Resolve(f, gp)].content)
            ELSE NoSpec
    ELSE NoSpec

\* main(argv) is entered
Start(a) ==
    /\ pc = "idle" /\ runs = 0 /\ exit = "none"
    /\ pc' = "parse"
    /\ argv' = a
    /\ UNCHANGED <<fs, setups, interrupted, exit, files, call, before, ret,
                   written, runs>>

\* parser.parse_args: arguments it cannot accept end the run with status 2;
\* then ext and out_path are worked out
Parse ==
    /\ pc = "parse"
    /\ IF argv.ok
       THEN /\ pc' = "load"
            /\ exit' = exit
            /\ call' = [root |-> Root, ext |-> MainExt(argv.ext),
                        output |-> MainOutPath(Root, MainExt(argv.ext),
                                               argv.output),
                        spec |-> NoSpec]
       ELSE /\ pc' = "done"
            /\ exit' = "2"
            /\ call' = call
    /\ UNCHANGED <<fs, setups, argv, interrupted, files, before, ret, written,
                   runs>>

\* the ignore file is loaded, or not
Load ==
    /\ pc = "load"
    /\ pc' = "walk"
    /\ call' = [call EXCEPT !.spec = MainGitignoreSpec(fs, Root, argv.gitignore)]
    /\ UNCHANGED <<fs, setups, argv, interrupted, exit, files, before, ret,
                   written, runs>>

\* aggregate_files up to the test of the list; with an empty list it
\* returns 0 and main ends
Walk ==
    /\ pc = "walk"
    /\ files' = Collect(fs, call.root, call.ext, call.output, call.spec)
    /\ before' = fs
    /\ runs' = runs + 1
    /\ IF files' = <<>>
       THEN pc' = "done" /\ exit' = "0" /\ ret' = 0
       ELSE pc' = "write" /\ exit' = exit /\ ret' = ret
    /\ UNCHANGED <<fs, setups, argv, interrupted, call, written>>

\* aggregate_files from the mkdir on; it returns and main ends
Write ==
    /\ pc = "write"
    /\ fs' = WriteOutput(fs, call.root, call.output, files, Len(files))
    /\ written' = files
    /\ ret' = Len(files)
    /\ pc' = "done"
    /\ exit' = "0"
    /\ UNCHANGED <<setups, argv, interrupted, files, call, before, runs>>

\* a KeyboardInterrupt outside the try statement leaves main as an
\* exception nobody catches
InterruptOutsideTry ==
    /\ pc \in {"parse", "load"}
    /\ interrupted' = pc
    /\ pc' = "done"
    /\ exit' = "KeyboardInterrupt"
    /\ UNCHANGED <<fs, setups, argv, files, call, before, ret, written, runs>>

\* an interruption of the walk that main does not catch
InterruptWalk_NotCaught ==
    /\ pc = "walk"
    /\ interrupted' = pc
    /\ pc' = "done"
    /\ exit' = "KeyboardInterrupt"
    /\ UNCHANGED <<fs, setups, argv, files, call, before, ret, written, runs>>

\* a KeyboardInterrupt during the walk is caught by main: sys.exit(130)
InterruptWalk ==
    /\ pc = "walk"
    /\ interrupted' = pc
    /\ pc' = "done"
    /\ exit' = "130"
    /\ UNCHANGED <<fs, setups, argv, files, call, before, ret, written, runs>>

\* a KeyboardInterrupt while the output is written, after n blocks
InterruptWrite(n) ==
    /\ pc = "write"
    /\ interrupted' = pc
    /\ fs' = WriteOutput(fs, call.root, call.output, files, n)
    /\ written' = SubSeq(files, 1, n)
    /\ pc' = "done"
    /\ exit' = "130"
    /\ UNCHANGED <<setups, argv, files, call, before, ret, runs>>

Environment ==
    \/ \E p \in FileSlots, c \in Contents : CreateFile(p, c)
    \/ \E p \in DirSlots : MakeDir(p)
    \/ \E p \in LinkSlots : MakeLink(p, aggregated_txt)
    \/ \E p \in FileSlots : MakeUnreadable(p)

Next ==
    \/ Environment
    \/ \E e \in Exts, o \in Outputs, s \in Specs : Aggregate(e, o, s)
    \/ AggregateAgain

Spec == Init /\ [][Next]_vars

-----------------------------------------------------------------------------
(* The command line run, over trees of files with one content. *)

gitignore == Root \o << <<46, 103, 105, 116, 105, 103, 110, 111, 114, 101>> >>
                                                                \* .gitignore

\* ".gitignore" by default, or given as ""
GitignoreArgs == { PathArg(FALSE, << <<46, 103, 105, 116, 105, 103, 110, 111,
                                       114, 101>> >>),
                   NoPathArg }

\* none (the default), "aggregated.txt", "/o/o.txt"
OutputArgs == { NoPathArg,
                PathArg(FALSE, <<aggregated \o <<46, 116, 120, 116>> >>),
                PathArg(TRUE, outside_txt) }

Argvs ==
    [ok : {TRUE}, ext : Exts, output : OutputArgs, gitignore : GitignoreArgs]
    \cup {[NoArgv EXCEPT !.ok = FALSE]}

EnvironmentCLI ==
    \/ \E p \in FileSlots : CreateFile(p, <<120>>)
    \/ CreateFile(gitignore, IgnoreLines)
    \/ \E p \in DirSlots : MakeDir(p)
    \/ \E p \in LinkSlots : MakeLink(p, aggregated_txt)

Main ==
    \/ \E a \in Argvs : Start(a)
    \/ Parse
    \/ Load
    \/ Walk
    \/ Write
    \/ InterruptOutsideTry
    \/ InterruptWalk
    \/ \E n \in 0..Len(files) : InterruptWrite(n)

NextCLI ==
    \/ EnvironmentCLI
    \/ \E e \in Exts, o \in Outputs : Aggregate(e, o, NoSpec)
    \/ Main

SpecCLI == Init /\ [][NextCLI]_vars

-----------------------------------------------------------------------------
(* What the properties speak of. *)

\* whether text t occurs in s at position i
OccursAt(s, t, i) ==
    /\ i + Len(t) - 1 <= Len(s)
    /\ \A k \in 1..Len(t) : s[i + k - 1] = t[k]

Contains(s, t) == \E i \in 1..(Len(s) + 1) : OccursAt(s, t, i)

\* a call of aggregate_files made by a caller of the library has returned
Returned == pc = "idle" /\ runs > 0

\* a path below the root of the latest call, as the "/"-separated string
Rel(p) == AsPosix(RelativeTo(p, call.root))

\* the output file of the latest call
OutFile == Resolve(before, call.output)

\* the regular files under root whose extension is the filter's, compared
\* in lower case, less those whose relative path the matcher matches, less
\* the output file
Survivors ==
    {p \in DOMAIN before :
        /\ IsUnder(p, call.root)
        /\ IsFile(before, p)
        /\ Lower(Suffix(Name(p))) = Lower(call.ext)
        /\ ~(call.spec.given /\ Rel(p) \in call.spec.matches)
        /\ Resolve(before, p) # OutFile}

WrittenSet == {written[i] : i \in 1..Len(written)}

\* whether reading p failed in the latest call
Unreadable(p) == ~before[Resolve(before, p)].readable

\* the text of the marker of a failed read
MarkerText ==
    <<91, 69, 114, 114, 111, 114, 32, 114, 101, 97, 100, 105, 110, 103, 32,
      102, 105, 108, 101, 58, 32, 80, 101, 114, 109, 105, 115, 115, 105, 111,
      110, 32, 100, 101, 110, 105, 101, 100, 93>>
                                 \* [Error reading file: Permission denied]

\* the content the latest call had for p: the file's, or the marker
ContentOf(p) ==
    IF Unreadable(p) THEN MarkerText ELSE before[Resolve(before, p)].content

\* the content with the newline that is added when it does not end with one
Terminated(c) == IF c # <<>> /\ c[Len(c)] = 10 THEN c ELSE c \o <<10>>

\* the block of p: the relative path and a newline, the content, the
\* newline it may lack, 80 dashes and a newline, and an empty line
ExpectedBlock(p) ==
    Rel(p) \o <<10>> \o Terminated(ContentOf(p)) \o Dashes80 \o <<10, 10>>

RECURSIVE ExpectedBlocks(_)
ExpectedBlocks(n) ==
    IF n = 0 THEN <<>> ELSE ExpectedBlocks(n - 1) \o ExpectedBlock(written[n])

-----------------------------------------------------------------------------
(* C1: the files a call writes a block for are exactly the regular files   *)
(* under root with the filter's extension, less those the matcher matches  *)
(* by their own relative path, less the output file; and the call returns  *)
(* how many they are.                                                      *)

C1_FilesIncluded ==
    Returned =>
        /\ WrittenSet = Survivors
        /\ Len(written) = Cardinality(Survivors)
        /\ ret = Cardinality(Survivors)

\* a call that wrote a block, and left out a file with the extension that
\* the matcher matches and the output file, which was there under root
C1_Witness ==
    /\ Returned
    /\ ret >= 1
    /\ call.spec.given
    /\ \E p \in DOMAIN before :
          /\ IsFile(before, p) /\ Rel(p) \in call.spec.matches
          /\ Lower(Suffix(Name(p))) = Lower(call.ext)
    /\ IsFile(before, OutFile) /\ IsUnder(OutFile, call.root)
    /\ Lower(Suffix(Name(OutFile))) = Lower(call.ext)

-----------------------------------------------------------------------------
(* C2, as stated: the blocks are in ascending order of the relative path   *)
(* strings, compared as whole strings ("a-b/x.txt" before "a/b.txt").      *)

C2_StringOrder ==
    Returned =>
        \A i, j \in 1..Len(written) :
            i < j => StrLess(Rel(written[i]), Rel(written[j]))

(* C2, amended: the blocks are in ascending order of the paths compared    *)
(* component by component, each component as a string ("a/b.txt" before    *)
(* "a-b/x.txt", as "a" is a prefix of "a-b").                              *)

C2_ComponentOrder ==
    Returned =>
        \A i, j \in 1..Len(written) :
            i < j => PathLess(RelativeTo(written[i], call.root),
                              RelativeTo(written[j], call.root))

\* both a/b.txt and a-b/x.txt got a block, a/b.txt the first
C2_Witness ==
    /\ Returned
    /\ \E i, j \in 1..Len(written) :
          i < j /\ written[i] = a_b_txt /\ written[j] = ab_x_txt

-----------------------------------------------------------------------------
(* C3: when a file is included, the whole content of the output file is    *)
(* the blocks of the included files and nothing else, each the relative    *)
(* path and a newline, the content (the marker, for a file that could not  *)
(* be read), a newline when the content does not end with one, 80 dashes   *)
(* and a newline, and an empty line; what the output file held is gone.    *)

C3_OutputContent ==
    Returned /\ ret > 0 =>
        /\ IsFile(fs, OutFile)
        /\ fs[OutFile].content = ExpectedBlocks(Len(written))

\* the output file held a text before, and the call wrote two blocks, one
\* for an empty file and one for a file that ends with a newline
C3_Witness ==
    /\ Returned /\ ret = 2
    /\ Exists(before, OutFile) /\ before[OutFile].content # <<>>
    /\ \E p \in WrittenSet : ContentOf(p) = <<>>
    /\ \E p \in WrittenSet : ContentOf(p) = <<120, 10>>

-----------------------------------------------------------------------------
(* C4, as stated: the output split on the 80 dashes gives one piece for    *)
(* each included file (after the last separator only the empty line is     *)
(* left, and a piece after a separator begins with that separator's        *)
(* newline and empty line), whose first line is the relative path and      *)
(* whose remainder is the content, with the newline it may have lacked;    *)
(* also when a content holds a line of 80 dashes.                          *)

\* str.split(sep): the pieces of s from `start` on, the scan being at i
RECURSIVE SplitFrom(_, _, _, _)
SplitFrom(s, sep, start, i) ==
    IF i + Len(sep) - 1 > Len(s) THEN <<SubSeq(s, start, Len(s))>>
    ELSE IF OccursAt(s, sep, i)
         THEN <<SubSeq(s, start, i - 1)>>
              \o SplitFrom(s, sep, i + Len(sep), i + Len(sep))
         ELSE SplitFrom(s, sep, start, i + 1)

Split(s, sep) == SplitFrom(s, sep, 1, 1)

\* the k-th piece without what the separator before it left
Piece(P, k) == IF k = 1 THEN P[1] ELSE SubSeq(P[k], 3, Len(P[k]))

\* the position of the first newline of a text, 0 when it has none
FirstNL(t) ==
    LET I == {i \in 1..Len(t) : t[i] = 10}
    IN IF I = {} THEN 0 ELSE CHOOSE i \in I : \A j \in I : i <= j

FirstLine(t) == SubSeq(t, 1, FirstNL(t) - 1)

Remainder(t) == SubSeq(t, FirstNL(t) + 1, Len(t))

RoundTrip ==
    LET P == Split(fs[OutFile].content, Dashes80)
        n == Len(written)
    IN /\ Len(P) = n + 1
       /\ P[n + 1] = <<10, 10>>
       /\ \A k \in 2..n : SubSeq(P[k], 1, 2) = <<10, 10>>
       /\ \A k \in 1..n :
             /\ FirstNL(Piece(P, k)) > 0
             /\ FirstLine(Piece(P, k)) = Rel(written[k])
             /\ Remainder(Piece(P, k)) = Terminated(ContentOf(written[k]))

C4_RoundTripAlways == Returned /\ ret > 0 => RoundTrip

(* C4, amended: the same, provided no included file's content and no       *)
(* included file's relative path holds 80 dashes in a row, and no relative *)
(* path holds a newline (the content being the marker for a file that      *)
(* could not be read).                                                     *)

NoSeparatorInside ==
    \A p \in WrittenSet :
        /\ ~Contains(ContentOf(p), Dashes80)
        /\ ~Contains(Rel(p), Dashes80)
        /\ ~Contains(Rel(p), <<10>>)

C4_RoundTrip == Returned /\ ret > 0 /\ NoSeparatorInside => RoundTrip

\* two blocks, of a content that ends with a newline and of one that does
\* not, are split
C4_Witness ==
    /\ Returned /\ ret = 2 /\ NoSeparatorInside
    /\ Len(Split(fs[OutFile].content, Dashes80)) = 3
    /\ \E p \in WrittenSet : ContentOf(p) = <<120, 10>>
    /\ \E p \in WrittenSet : ContentOf(p) = <<120>>

-----------------------------------------------------------------------------
(* C5: a second call with the same arguments on the tree the first call    *)
(* left changes nothing: the output file is the same, byte for byte, and   *)
(* the output of the first call gets no block in the second.               *)

C5_Idempotent ==
    Returned /\ runs = 2 =>
        /\ fs = before
        /\ OutFile \notin WrittenSet

\* the output file lies under root with the extension asked for, and both
\* calls wrote blocks
C5_Witness ==
    /\ Returned /\ runs = 2 /\ ret > 0
    /\ call.output = aggregated_txt
    /\ Lower(Suffix(Name(call.output))) = Lower(call.ext)

-----------------------------------------------------------------------------
(* C6: when no file survives the filters, the call returns 0 and leaves    *)
(* the filesystem as it was: no output file, no directory for it, and an   *)
(* output file that was there keeps its content.                           *)

C6_EmptyResult ==
    Returned /\ Survivors = {} => ret = 0 /\ fs = before

\* the only file with the extension is the output file, which has content
C6_Witness ==
    /\ Returned /\ runs = 1 /\ ret = 0
    /\ IsFile(before, OutFile) /\ before[OutFile].content # <<>>
    /\ IsUnder(OutFile, call.root)
    /\ Lower(Suffix(Name(OutFile))) = Lower(call.ext)

\* the output file would lie in a directory that is missing
C6_WitnessNoDirectory ==
    /\ Returned /\ ret = 0
    /\ ~Exists(before, Parent(OutFile))
    /\ \E p \in DOMAIN before : IsFile(before, p)

-----------------------------------------------------------------------------
(* C7: a file that cannot be read does not end the call: it has its block, *)
(* with the bracketed marker that names the failure in place of a content, *)
(* the other files have their blocks, all in the order of the sort, and    *)
(* the count returned includes the file.                                   *)

FailedReads == {p \in Survivors : Unreadable(p)}

\* the block of a failed read
MarkerBlock(p) ==
    Rel(p) \o <<10>> \o MarkerText \o <<10>> \o Dashes80 \o <<10, 10>>

\* the blocks before the n-th, and the n-th being that of a failed read
C7_ReadFailure ==
    Returned /\ FailedReads # {} =>
        /\ ret = Cardinality(Survivors)
        /\ WrittenSet = Survivors
        /\ \A i \in 1..Len(written) :
              /\ \A j \in 1..Len(written) :
                    i < j => PathLess(written[i], written[j])
              /\ OccursAt(fs[OutFile].content,
                          IF Unreadable(written[i])
                          THEN MarkerBlock(written[i])
                          ELSE ExpectedBlock(written[i]),
                          Len(ExpectedBlocks(i - 1)) + 1)
        /\ Len(fs[OutFile].content) = Len(ExpectedBlocks(Len(written)))

\* a file that could not be read, and after it one that could
C7_Witness ==
    /\ Returned /\ ret = 2
    /\ Unreadable(written[1])
    /\ ~Unreadable(written[2])

-----------------------------------------------------------------------------
(* C10: no file below a directory that the matcher matches gets a block,   *)
(* whatever the matcher says of the file's own path.                       *)

\* the directories above p, below root
DirsAbove(p) ==
    {d \in Ancestors(Parent(p)) : IsUnder(d, call.root)}

C10_SubtreeExcluded ==
    Returned /\ call.spec.given =>
        \A p \in WrittenSet : \A d \in DirsAbove(p) : Rel(d) \notin call.spec.matches

-----------------------------------------------------------------------------
(* C8, as stated: aggregate_files compares the extensions in lower case    *)
(* and after giving the filter its leading dot, so that with any of the    *)
(* filters "txt", ".txt", "TXT", ".TXT" it selects the files whose         *)
(* extension in lower case is ".txt" (less those the matcher matches and   *)
(* the output file).                                                       *)

\* a call of aggregate_files has returned, to a caller of the library or
\* to main
CallReturned == Returned \/ (pc = "done" /\ exit = "0")

dot_txt_ext == <<46, 116, 120, 116>>                              \* ".txt"

\* the files a filter that means ".txt" is to select
TxtSurvivors ==
    {p \in DOMAIN before :
        /\ IsUnder(p, call.root)
        /\ IsFile(before, p)
        /\ Lower(Suffix(Name(p))) = dot_txt_ext
        /\ ~(call.spec.given /\ Rel(p) \in call.spec.matches)
        /\ Resolve(before, p) # OutFile}

C8_AnyFilterSpelling ==
    CallReturned /\ call.ext \in Exts => WrittenSet = TxtSurvivors

(* C8, amended: main gives the filter its leading dot and aggregate_files  *)
(* puts it in lower case, so a command line run with any of the filters    *)
(* "txt", ".txt", "TXT", ".TXT" selects the files whose extension in lower *)
(* case is ".txt" (less those the matcher matches and the run's output     *)
(* file); aggregate_files itself adds no dot: called with ".txt" or ".TXT" *)
(* it selects these files, called with "txt" or "TXT" it selects none.     *)

C8_ExtensionNormalized ==
    /\ pc = "done" /\ exit = "0" /\ argv.ext \in Exts =>
          WrittenSet = TxtSurvivors
    /\ Returned /\ StartsWithDot(call.ext) => WrittenSet = TxtSurvivors
    /\ Returned /\ ~StartsWithDot(call.ext) => WrittenSet = {}

\* a command line run with the filter "TXT" wrote the blocks of a file
\* named in lower case and of one named in upper case
C8_Witness ==
    /\ pc = "done" /\ exit = "0"
    /\ argv.ext = <<84, 88, 84>>
    /\ a_b_txt \in WrittenSet /\ c_TXT \in WrittenSet

-----------------------------------------------------------------------------
(* C9, as stated: a run that a user interruption reached, at any point,    *)
(* ends with exit code 130, and every other run ends with exit code 0.     *)

C9_WitnessNoFiles ==
    /\ pc = "done" /\ interrupted = "no" /\ exit = "0" /\ ret = 0
    /\ argv.gitignore.given /\ ~Exists(fs, gitignore)

====
